---- MODULE Spec2Model ----
(***************************************************************************)
(* Model of python/gtex_rnaseq_prep_app.py: the GTEx RNAseq preprocessor.  *)
(* Strings are sequences of character codes (so that sorting and prefix    *)
(* matching are computed, not assumed).  A data frame whose row order is   *)
(* not observable is a set of rows; a frame that has been sorted or whose  *)
(* order is read is a sequence of rows.                                    *)
(***************************************************************************)
EXTENDS Integers, Sequences, FiniteSets, TLC

VARIABLES pc, Name, genes, ENSG, rnaseq, rnaseq_sample, rnaseq_median,
          tissues, rnaseq_profiles

vars == <<pc, Name, genes, ENSG, rnaseq, rnaseq_sample, rnaseq_median,
          tissues, rnaseq_profiles>>

(* ---------------------------- bounds ----------------------------------- *)
\* rows of the long table handed to CleanRnaseq
MaxRows == 4
\* TPM values of the long table are 0..MaxTPM
MaxTPM == 1
\* rows of the table handed to SABV_aggregate_median on its own
MaxGroupRows == 4
\* TPM values of that table are 0..MaxValue
MaxValue == 1
\* rows of the aggregate table handed to PivotToProfiles on its own
MaxAggRows == 3
\* medians of that table are 0..MaxMedian
MaxMedian == 1
\* length of a supplied ordered tissue list
MaxListLen == 2
\* length of a gene identifier of the wide matrix
MaxIdLen == 3
\* rows of the wide matrix
MaxWideRows == 2

(* ---------------------------- strings ---------------------------------- *)
\* "Bladder", "Breast", "Lung": tissue-detailed labels (SMTSD)
Bladder == <<66, 108, 97, 100, 100, 101, 114>>
BreastTissue == <<66, 114, 101, 97, 115, 116>>
Lung == <<76, 117, 110, 103>>
Tissues == {Bladder, BreastTissue, Lung}
\* "G1", "G2": gene identifiers (ENSG)
G1 == <<71, 49>>
G2 == <<71, 50>>
Genes == {G1, G2}
\* "S1" .. "S6": sample identifiers (SAMPID)
S1 == <<83, 49>>
S2 == <<83, 50>>
S3 == <<83, 51>>
S4 == <<83, 52>>
S5 == <<83, 53>>
S6 == <<83, 54>>
SampleIDs == {S1, S2, S3, S4, S5, S6}
Sexes == {"F", "M"}

\* Python's str comparison: code point by code point, a proper prefix first.
RECURSIVE LexLess(_, _)
LexLess(a, b) ==
  IF a = <<>> THEN b # <<>>
  ELSE IF b = <<>> THEN FALSE
  ELSE IF Head(a) # Head(b) THEN Head(a) < Head(b)
  ELSE LexLess(Tail(a), Tail(b))

\* Series.sort_values().unique() of a string column: ascending, each value once.
RECURSIVE SortedUnique(_)
SortedUnique(S) ==
  IF S = {} THEN <<>>
  ELSE LET m == CHOOSE x \in S : \A y \in S : ~LexLess(y, x)
       IN <<m>> \o SortedUnique(S \ {m})

\* SMTSD.str.match('^Breast'): the label starts with the six characters.
MatchBreast(smtsd) ==
  /\ Len(smtsd) >= 6
  /\ SubSeq(smtsd, 1, 6) = <<66, 114, 101, 97, 115, 116>>

(* ------------------------- sample annotation --------------------------- *)
\* The annotated samples the expression rows are joined with: each sample
\* belongs to one tissue and one donor sex.
samples ==
  (S1 :> [SMTSD |-> Bladder, SEX |-> "F"]) @@
  (S2 :> [SMTSD |-> Bladder, SEX |-> "M"]) @@
  (S3 :> [SMTSD |-> BreastTissue, SEX |-> "M"]) @@
  (S4 :> [SMTSD |-> BreastTissue, SEX |-> "F"]) @@
  (S5 :> [SMTSD |-> Lung, SEX |-> "F"]) @@
  (S6 :> [SMTSD |-> Lung, SEX |-> "M"])

\* One row of the long table after the merge with the samples.
MergedRow(ensg, sampid, tpm) ==
  [ENSG |-> ensg, SMTSD |-> samples[sampid].SMTSD, SAMPID |-> sampid,
   SEX |-> samples[sampid].SEX, TPM |-> tpm]

(* ---------------------------- CleanRnaseq ------------------------------ *)
\* rnaseq_out before its first assignment, and after.
Unbound == [bound |-> FALSE, df |-> {}]
Bound(df) == [bound |-> TRUE, df |-> df]

\* A plausible slip: the per-gene check left out, every row of a two-sex
\* tissue kept.
KeepAllGenes(rnaseq_this) == rnaseq_this

\* Lines 170-174: keep the rows of the genes that have rows of two sexes.
DropNsexLt2(rnaseq_this) ==
  {r \in rnaseq_this :
     Cardinality({q.SEX : q \in {q \in rnaseq_this : q.ENSG = r.ENSG}}) >= 2}

\* Lines 165-178: the first loop from its i-th iteration (i as enumerate
\* counts it, from 0).  st.raised: the unbound rnaseq_out was read.
RECURSIVE SexLoop(_, _, _, _)
SexLoop(df, order, i, st) ==
  IF i = Len(order) \/ st.raised THEN st
  ELSE LET smtsd == order[i + 1]
           rnaseq_this == {r \in df : r.SMTSD = smtsd}
       IN IF Cardinality({r.SEX : r \in rnaseq_this}) < 2
          THEN SexLoop(df, order, i + 1, st)
          ELSE IF i = 0
          THEN SexLoop(df, order, i + 1,
                       [raised |-> FALSE, out |-> Bound(DropNsexLt2(rnaseq_this))])
          ELSE IF ~st.out.bound
          THEN [raised |-> TRUE, out |-> st.out]
          ELSE SexLoop(df, order, i + 1,
                       [raised |-> FALSE,
                        out |-> Bound(st.out.df \cup DropNsexLt2(rnaseq_this))])

\* Lines 187-191: keep the rows of the genes whose maximum TPM is not 0.
DropTpmAll0(rnaseq_this) ==
  {r \in rnaseq_this :
     \E q \in rnaseq_this : q.ENSG = r.ENSG /\ q.TPM # 0
                            /\ \A p \in rnaseq_this :
                                 p.ENSG = r.ENSG => p.TPM <= q.TPM}

\* Lines 185-195: the second loop; rnaseq_out still holds the first loop's
\* value until the iteration with i = 0 assigns it.
RECURSIVE ZeroLoop(_, _, _, _)
ZeroLoop(df, order, i, out) ==
  IF i = Len(order) THEN out
  ELSE LET smtsd == order[i + 1]
           rnaseq_this == DropTpmAll0({r \in df : r.SMTSD = smtsd})
       IN IF i = 0 THEN ZeroLoop(df, order, i + 1, rnaseq_this)
          ELSE ZeroLoop(df, order, i + 1, out \cup rnaseq_this)

\* The sort key of line 199.
RowLess(a, b) ==
  \/ LexLess(a.ENSG, b.ENSG)
  \/ a.ENSG = b.ENSG /\ LexLess(a.SMTSD, b.SMTSD)
  \/ a.ENSG = b.ENSG /\ a.SMTSD = b.SMTSD /\ LexLess(a.SAMPID, b.SAMPID)

\* Lines 199-200: sort_values(by=['ENSG','SMTSD','SAMPID']), reset_index.
RECURSIVE SortValues(_)
SortValues(df) ==
  IF df = {} THEN <<>>
  ELSE LET m == CHOOSE x \in df : \A y \in df : ~RowLess(y, x)
       IN <<m>> \o SortValues(df \ {m})

\* Lines 160-205.  raised: UnboundLocalError on rnaseq_out.
CleanRnaseq(df) ==
  LET s1 == SexLoop(df, SortedUnique({r.SMTSD : r \in df}), 0,
                    [raised |-> FALSE, out |-> Unbound])
  IN IF s1.raised \/ ~s1.out.bound
     THEN [raised |-> TRUE, df |-> <<>>]
     ELSE LET nobreast == {r \in s1.out.df : ~MatchBreast(r.SMTSD)}
              out == ZeroLoop(nobreast, SortedUnique({r.SMTSD : r \in nobreast}),
                              0, s1.out.df)
          IN [raised |-> FALSE, df |-> SortValues(out)]

(* ------------------------ SABV_aggregate_median ------------------------ *)
\* The group keys of line 213, each once.
GroupKeys(df) == {<<df[i].ENSG, df[i].SMTSD, df[i].SEX>> : i \in DOMAIN df}

\* The TPM values of one group, in row order.
RECURSIVE GroupValues(_, _)
GroupValues(df, k) ==
  IF df = <<>> THEN <<>>
  ELSE IF <<Head(df).ENSG, Head(df).SMTSD, Head(df).SEX>> = k
       THEN <<Head(df).TPM>> \o GroupValues(Tail(df), k)
       ELSE GroupValues(Tail(df), k)

\* Ascending insertion of one value into a sorted sequence.
RECURSIVE Insert(_, _)
Insert(x, s) ==
  IF s = <<>> THEN <<x>>
  ELSE IF x <= Head(s) THEN <<x>> \o s
  ELSE <<Head(s)>> \o Insert(x, Tail(s))

RECURSIVE SortNumbers(_)
SortNumbers(xs) ==
  IF xs = <<>> THEN <<>> ELSE Insert(Head(xs), SortNumbers(Tail(xs)))

\* A plausible slip: the middle of the values as they come, not of the sorted ones.
MedianUnsorted(xs) ==
  LET n == Len(xs)
  IN IF n % 2 = 1 THEN 2 * xs[(n + 1) \div 2]
     ELSE xs[n \div 2] + xs[n \div 2 + 1]

\* The group median, in half TPM units (twice the median, which need not be
\* an integer): the middle value, or the sum of the two middle values.
Median(xs) ==
  LET n == Len(xs)
      s == SortNumbers(xs)
  IN IF n % 2 = 1 THEN 2 * s[(n + 1) \div 2]
     ELSE s[n \div 2] + s[n \div 2 + 1]

\* groupby sorts its keys: by ENSG, SMTSD, then SEX ("F" before "M").
KeyLess(a, b) ==
  \/ LexLess(a[1], b[1])
  \/ a[1] = b[1] /\ LexLess(a[2], b[2])
  \/ a[1] = b[1] /\ a[2] = b[2] /\ a[3] = "F" /\ b[3] = "M"

RECURSIVE SortKeys(_)
SortKeys(K) ==
  IF K = {} THEN <<>>
  ELSE LET m == CHOOSE x \in K : \A y \in K : ~KeyLess(y, x)
       IN <<m>> \o SortKeys(K \ {m})

\* Lines 210-215: one row per (ENSG, SMTSD, SEX) group, TPM its median.
SABV_aggregate_median(df) ==
  LET keys == SortKeys(GroupKeys(df))
  IN [i \in 1..Len(keys) |->
        [ENSG |-> keys[i][1], SMTSD |-> keys[i][2], SEX |-> keys[i][3],
         TPM |-> Median(GroupValues(df, keys[i]))]]

(* --------------------------- PivotToProfiles --------------------------- *)
\* A cell of the wide table: a value, or the missing-value marker.
NaN == <<>>
Val(v) == <<v>>
\* The column names 'ENSG' and 'SEX'.
ColENSG == <<69, 78, 83, 71>>
ColSEX == <<83, 69, 88>>

\* tissues_ordered: None, or a pandas Series of labels.
None == [series |-> FALSE, values |-> <<>>]
Series(list) == [series |-> TRUE, values |-> list]

Range(s) == {s[i] : i \in DOMAIN s}

\* Lines 225-232: the tissue columns and their order.
ResolveTissues(df, tissues_ordered) ==
  LET observed == SortedUnique({df[i].SMTSD : i \in DOMAIN df})
  IN IF tissues_ordered.series /\ Range(observed) = Range(tissues_ordered.values)
     THEN tissues_ordered.values
     ELSE observed

\* A plausible slip: the pivot filled with 0 where a gene has no row of a
\* tissue (pivot_table with fill_value=0).
PivotSexFill0(df, sex) ==
  LET sub == {i \in DOMAIN df : df[i].SEX = sex}
      index == SortedUnique({df[i].ENSG : i \in sub})
      columns == {df[i].SMTSD : i \in sub}
      cell(g, t) == IF \E i \in sub : df[i].ENSG = g /\ df[i].SMTSD = t
                    THEN Val(df[CHOOSE i \in sub : df[i].ENSG = g /\ df[i].SMTSD = t].TPM)
                    ELSE Val(0)
  IN [dup |-> FALSE,
      columns |-> columns,
      rows |-> [n \in 1..Len(index) |->
                  [ENSG |-> index[n], SEX |-> sex,
                   cells |-> [t \in columns |-> cell(index[n], t)]]]]

\* Lines 237-250: the rows of one sex, pivoted (index ENSG, columns SMTSD,
\* a missing cell where the gene has no row of the tissue), with SEX set.
PivotSex(df, sex) ==
  LET sub == {i \in DOMAIN df : df[i].SEX = sex}
      index == SortedUnique({df[i].ENSG : i \in sub})
      columns == {df[i].SMTSD : i \in sub}
      cell(g, t) == IF \E i \in sub : df[i].ENSG = g /\ df[i].SMTSD = t
                    THEN Val(df[CHOOSE i \in sub : df[i].ENSG = g /\ df[i].SMTSD = t].TPM)
                    ELSE NaN
  IN [dup |-> \E i, j \in sub : i # j /\ df[i].ENSG = df[j].ENSG
                                /\ df[i].SMTSD = df[j].SMTSD,
      columns |-> columns,
      rows |-> [n \in 1..Len(index) |->
                  [ENSG |-> index[n], SEX |-> sex,
                   cells |-> [t \in columns |-> cell(index[n], t)]]]]

\* Lines 223-256.  raised: pivot's ValueError on a duplicate (ENSG, SMTSD),
\* or the KeyError of exfiles[cols] on a column the concatenation lacks.
PivotToProfiles(df, tissues_ordered) ==
  LET tissues_ == ResolveTissues(df, tissues_ordered)
      exfiles_f == PivotSex(df, "F")
      exfiles_m == PivotSex(df, "M")
      concat == exfiles_f.rows \o exfiles_m.rows
      allcols == exfiles_f.columns \cup exfiles_m.columns
  IN IF exfiles_f.dup \/ exfiles_m.dup \/ ~(Range(tissues_) \subseteq allcols)
     THEN [raised |-> TRUE, columns |-> <<>>, rows |-> <<>>]
     ELSE [raised |-> FALSE,
           columns |-> <<ColENSG, ColSEX>> \o tissues_,
           rows |-> [n \in 1..Len(concat) |->
                       [ENSG |-> concat[n].ENSG, SEX |-> concat[n].SEX,
                        cells |-> [c \in 1..Len(tissues_) |->
                                     IF tissues_[c] \in DOMAIN concat[n].cells
                                     THEN concat[n].cells[tissues_[c]]
                                     ELSE NaN]]]]

(* ------------------------------ ReadRnaseq ----------------------------- *)
\* The value str.extract gives where the pattern does not match.
NoMatch == <<-1>>

\* The longest prefix without a period: what the greedy [^\.]+ consumes.
RECURSIVE Run(_)
Run(s) == IF s = <<>> \/ Head(s) = 46 THEN 0 ELSE 1 + Run(Tail(s))

\* Line 135: str.extract('^([^\.]+)\..*$'): the group is the text before the
\* first period, when that text is not empty and a period follows it.
Extract(s) ==
  LET n == Run(s)
  IN IF n >= 1 /\ n < Len(s) THEN SubSeq(s, 1, n) ELSE NoMatch

\* Line 135 applied to the whole ENSG column.
ReadRnaseq(names) == [i \in DOMAIN names |-> Extract(names[i])]

\* Line 328: the inner join on ENSG with the gene file's ENSG column.
RECURSIVE MergeInner(_, _)
MergeInner(col, whitelist) ==
  IF col = <<>> THEN <<>>
  ELSE IF Head(col) \in whitelist
       THEN <<Head(col)>> \o MergeInner(Tail(col), whitelist)
       ELSE MergeInner(Tail(col), whitelist)

(* ------------------------------ the program ---------------------------- *)
NoProfiles == [raised |-> FALSE, columns |-> <<>>, rows |-> <<>>]

\* Line 324: rnaseq = ReadRnaseq(...).
ReadRnaseqStep ==
  /\ pc = "start"
  /\ ENSG' = ReadRnaseq(Name)
  /\ pc' = "read"
  /\ UNCHANGED <<Name, genes, rnaseq, rnaseq_sample, rnaseq_median, tissues,
                 rnaseq_profiles>>

\* Line 328: the inner join with the gene file.
MergeGenesStep ==
  /\ pc = "read"
  /\ ENSG' = MergeInner(ENSG, genes)
  /\ pc' = "joined"
  /\ UNCHANGED <<Name, genes, rnaseq, rnaseq_sample, rnaseq_median, tissues,
                 rnaseq_profiles>>

\* Line 351: rnaseq = CleanRnaseq(rnaseq, ...); an exception ends the run.
CleanRnaseqStep ==
  /\ pc = "merged"
  /\ LET r == CleanRnaseq(rnaseq)
     IN IF r.raised
        THEN pc' = "raised" /\ UNCHANGED rnaseq_sample
        ELSE pc' = "cleaned" /\ rnaseq_sample' = r.df
  /\ UNCHANGED <<Name, genes, ENSG, rnaseq, rnaseq_median, tissues,
                 rnaseq_profiles>>

\* Line 358: rnaseq = SABV_aggregate_median(rnaseq, ...).
AggregateStep ==
  /\ pc = "cleaned"
  /\ rnaseq_median' = SABV_aggregate_median(rnaseq_sample)
  /\ pc' = "aggregated"
  /\ UNCHANGED <<Name, genes, ENSG, rnaseq, rnaseq_sample, tissues,
                 rnaseq_profiles>>

\* Line 367: rnaseq_profiles = PivotToProfiles(rnaseq, tissues, ...).
PivotStep ==
  /\ pc = "aggregated"
  /\ LET r == PivotToProfiles(rnaseq_median, tissues)
     IN /\ rnaseq_profiles' = r
        /\ pc' = IF r.raised THEN "raised" ELSE "profiled"
  /\ UNCHANGED <<Name, genes, ENSG, rnaseq, rnaseq_sample, rnaseq_median,
                 tissues>>

\* The long tables CleanRnaseq is given: from 1 to MaxRows rows, one per
\* (gene, sample), TPM in 0..MaxTPM.
Init ==
  /\ pc = "merged"
  /\ \E K \in SUBSET (Genes \X SampleIDs) :
       /\ K # {}
       /\ Cardinality(K) <= MaxRows
       /\ \E f \in [K -> 0..MaxTPM] :
            rnaseq = {MergedRow(k[1], k[2], f[k]) : k \in K}
  /\ tissues = None
  /\ Name = <<>> /\ genes = {} /\ ENSG = <<>>
  /\ rnaseq_sample = <<>> /\ rnaseq_median = <<>>
  /\ rnaseq_profiles = NoProfiles

Next == CleanRnaseqStep \/ AggregateStep \/ PivotStep

\* Lines 351-367 of the main program, without a tissue file.
Spec == Init /\ [][Next]_vars

\* The rows SABV_aggregate_median is given on its own: any sequence of at
\* most MaxGroupRows rows, repeated group keys included, over four groups
\* that differ from the first in the gene, the tissue or the sex.
SampleGroups ==
  {<<G1, Lung, "F">>, <<G2, Lung, "F">>, <<G1, Bladder, "F">>, <<G1, Lung, "M">>}
SampleRows ==
  {[ENSG |-> k[1], SMTSD |-> k[2], SEX |-> k[3], TPM |-> v] :
     k \in SampleGroups, v \in 0..MaxValue}

InitMedian ==
  /\ pc = "cleaned"
  /\ \E n \in 0..MaxGroupRows : rnaseq_sample \in [1..n -> SampleRows]
  /\ tissues = None
  /\ Name = <<>> /\ genes = {} /\ ENSG = <<>> /\ rnaseq = {}
  /\ rnaseq_median = <<>>
  /\ rnaseq_profiles = NoProfiles

NextMedian == AggregateStep

SpecMedian == InitMedian /\ [][NextMedian]_vars

\* The aggregate tables PivotToProfiles is given on its own: at most one
\* row per (gene, tissue, sex), in the order groupby emits them.
PivotTissues == {Bladder, Lung}
OtherTissue == <<83, 107, 105, 110>>
TissueLists ==
  UNION {[1..n -> PivotTissues \cup {OtherTissue}] : n \in 0..MaxListLen}

InitPivot ==
  /\ pc = "aggregated"
  /\ \E K \in SUBSET (Genes \X PivotTissues \X Sexes) :
       /\ Cardinality(K) <= MaxAggRows
       /\ \E f \in [K -> 0..MaxMedian] :
            LET keys == SortKeys(K)
            IN rnaseq_median =
                 [i \in 1..Len(keys) |->
                    [ENSG |-> keys[i][1], SMTSD |-> keys[i][2],
                     SEX |-> keys[i][3], TPM |-> f[keys[i]]]]
  /\ tissues \in {None} \cup {Series(l) : l \in TissueLists}
  /\ Name = <<>> /\ genes = {} /\ ENSG = <<>> /\ rnaseq = {}
  /\ rnaseq_sample = <<>>
  /\ rnaseq_profiles = NoProfiles

NextPivot == PivotStep

SpecPivot == InitPivot /\ [][NextPivot]_vars

\* The Name column of the wide matrix: identifiers over "E", "1" and the
\* period, none starting with a period; the gene file lists unversioned
\* identifiers.
IdChars == {69, 49, 46}
Ids == {s \in UNION {[1..n -> IdChars] : n \in 1..MaxIdLen} : s[1] # 46}
GeneFiles == {{}, {<<69>>}, {<<69>>, <<69, 49>>}}

InitRead ==
  /\ pc = "start"
  /\ \E n \in 0..MaxWideRows : Name \in [1..n -> Ids]
  /\ genes \in GeneFiles
  /\ ENSG = <<>> /\ rnaseq = {}
  /\ tissues = None
  /\ rnaseq_sample = <<>> /\ rnaseq_median = <<>>
  /\ rnaseq_profiles = NoProfiles

NextRead == ReadRnaseqStep \/ MergeGenesStep

SpecRead == InitRead /\ [][NextRead]_vars

(* ------------------------------- claims -------------------------------- *)
\* CleanRnaseq has returned (the run went past line 351).
Cleaned == pc \in {"cleaned", "aggregated", "profiled"}

\* The sexes of the rows the input table holds of tissue t.
InputSexes(t) == {r.SEX : r \in {r \in rnaseq : r.SMTSD = t}}

\* The rows of rnaseq_sample of one (gene, tissue) pair.
SampleRowsOf(g, t) ==
  {i \in DOMAIN rnaseq_sample :
     rnaseq_sample[i].ENSG = g /\ rnaseq_sample[i].SMTSD = t}

\* C1: the table CleanRnaseq returns holds no row whose tissue-detailed
\* label starts with 'Breast'.
C1_BreastExcluded ==
  Cleaned => \A i \in DOMAIN rnaseq_sample : ~MatchBreast(rnaseq_sample[i].SMTSD)

\* C2: every (gene, tissue) pair with a row in CleanRnaseq's output has a row
\* of sex F and a row of sex M there, and every (gene, tissue) pair of the
\* aggregate table has exactly two aggregate rows, one per sex.
C2_SexComplete ==
  /\ Cleaned =>
       \A i \in DOMAIN rnaseq_sample : \A x \in Sexes :
         \E j \in SampleRowsOf(rnaseq_sample[i].ENSG, rnaseq_sample[i].SMTSD) :
           rnaseq_sample[j].SEX = x
  /\ pc \in {"aggregated", "profiled"} =>
       \A i \in DOMAIN rnaseq_median :
         LET same == {j \in DOMAIN rnaseq_median :
                        /\ rnaseq_median[j].ENSG = rnaseq_median[i].ENSG
                        /\ rnaseq_median[j].SMTSD = rnaseq_median[i].SMTSD}
         IN /\ Cardinality(same) = 2
            /\ {rnaseq_median[j].SEX : j \in same} = Sexes

\* C2's case: a two-sex tissue of the input held a gene with rows of one sex
\* only, another gene of it came through, and the aggregate was computed.
C2_Witness ==
  /\ pc = "aggregated"
  /\ rnaseq_median # <<>>
  /\ \E r \in rnaseq :
       /\ InputSexes(r.SMTSD) = Sexes
       /\ \A q \in rnaseq : (q.SMTSD = r.SMTSD /\ q.ENSG = r.ENSG) => q.SEX = r.SEX
       /\ \E i \in DOMAIN rnaseq_sample :
            rnaseq_sample[i].SMTSD = r.SMTSD /\ rnaseq_sample[i].ENSG # r.ENSG

\* C3: every (gene, tissue) pair in CleanRnaseq's output has an output row
\* with TPM greater than 0.
C3_NoAllZeroGene ==
  Cleaned =>
    \A i \in DOMAIN rnaseq_sample :
      \E j \in SampleRowsOf(rnaseq_sample[i].ENSG, rnaseq_sample[i].SMTSD) :
        rnaseq_sample[j].TPM > 0

\* C4: CleanRnaseq does not raise, and its output holds no row of a tissue
\* whose input rows all carry the same sex.
C4_SingleSexDropped ==
  /\ pc # "raised"
  /\ Cleaned =>
       \A i \in DOMAIN rnaseq_sample :
         Cardinality(InputSexes(rnaseq_sample[i].SMTSD)) >= 2

\* C5: for every (gene, tissue) pair in CleanRnaseq's output, each of the
\* two sexes has an output row of the pair with TPM greater than 0.
C5_NonzeroInBothSexes ==
  Cleaned =>
    \A i \in DOMAIN rnaseq_sample : \A x \in Sexes :
      \E j \in SampleRowsOf(rnaseq_sample[i].ENSG, rnaseq_sample[i].SMTSD) :
        rnaseq_sample[j].SEX = x /\ rnaseq_sample[j].TPM > 0

\* One tissue filtered in isolation, as C9 states it: nothing of a
\* single-sex or breast tissue, no gene with rows of fewer than two sexes,
\* no gene whose maximum TPM is 0.
FilterTissueAlone(rows) ==
  IF Cardinality({r.SEX : r \in rows}) < 2 THEN {}
  ELSE {r \in rows :
          /\ ~MatchBreast(r.SMTSD)
          /\ {q.SEX : q \in {q \in rows : q.ENSG = r.ENSG}} = Sexes
          /\ \E q \in rows : q.ENSG = r.ENSG /\ q.TPM > 0}

\* C9: CleanRnaseq returns, for every input, the per-tissue results of the
\* filter applied to each tissue in isolation, merged and sorted by
\* (gene ID, tissue, sample ID).
C9_PerTissueIndependent ==
  /\ pc # "raised"
  /\ Cleaned =>
       rnaseq_sample =
         SortValues(UNION {FilterTissueAlone({r \in rnaseq : r.SMTSD = t}) :
                             t \in {r.SMTSD : r \in rnaseq}})

\* The rows of df of one (gene, tissue, sex) group.
GroupRows(df, k) ==
  {i \in DOMAIN df : <<df[i].ENSG, df[i].SMTSD, df[i].SEX>> = k}

\* The n-th order statistic of the TPM values of the rows I of df: the
\* value with fewer than n values below it and at least n not above it.
OrderStatistic(df, I, n) ==
  CHOOSE v \in {df[i].TPM : i \in I} :
    /\ Cardinality({i \in I : df[i].TPM < v}) < n
    /\ Cardinality({i \in I : df[i].TPM <= v}) >= n

\* Twice the standard median of the TPM values of the rows I of df.
TwiceMedian(df, I) ==
  LET n == Cardinality(I)
  IN IF n % 2 = 1 THEN 2 * OrderStatistic(df, I, (n + 1) \div 2)
     ELSE OrderStatistic(df, I, n \div 2) + OrderStatistic(df, I, n \div 2 + 1)

\* df with its rows i and i + 1 exchanged.
SwapRows(df, i) ==
  [j \in DOMAIN df |-> IF j = i THEN df[i + 1] ELSE IF j = i + 1 THEN df[i] ELSE df[j]]

\* C6: SABV_aggregate_median emits one row per (gene, tissue, sex) triple of
\* its input and no other row, the row's value is the standard median of the
\* group (here twice it), groups of size 1 included, and exchanging any two
\* neighbouring input rows (hence any permutation) leaves the result as it is.
C6_MedianAggregation ==
  pc = "aggregated" =>
    /\ \A k \in GroupKeys(rnaseq_sample) :
         Cardinality(GroupRows(rnaseq_median, k)) = 1
    /\ \A i \in DOMAIN rnaseq_median :
         LET I == GroupRows(rnaseq_sample, <<rnaseq_median[i].ENSG,
                                             rnaseq_median[i].SMTSD,
                                             rnaseq_median[i].SEX>>)
         IN /\ I # {}
            /\ rnaseq_median[i].TPM = TwiceMedian(rnaseq_sample, I)
    /\ \A i \in 1..(Len(rnaseq_sample) - 1) :
         SABV_aggregate_median(SwapRows(rnaseq_sample, i)) = rnaseq_median

\* C6's case: an unsorted group of four values whose median lies between two
\* of them has been aggregated.
C6_Witness ==
  /\ pc = "aggregated"
  /\ Len(rnaseq_sample) = 4
  /\ Len(rnaseq_median) = 1
  /\ rnaseq_sample[1].TPM > rnaseq_sample[2].TPM
  /\ rnaseq_median[1].TPM % 2 = 1

\* The (gene, sex) pairs of the aggregate table.
GeneSexPairs == {<<rnaseq_median[i].ENSG, rnaseq_median[i].SEX>> : i \in DOMAIN rnaseq_median}

\* The rows of the aggregate table of one (gene, tissue, sex) triple.
MedianRowsOf(g, t, x) ==
  {i \in DOMAIN rnaseq_median :
     /\ rnaseq_median[i].ENSG = g
     /\ rnaseq_median[i].SMTSD = t
     /\ rnaseq_median[i].SEX = x}

\* The tissue columns of the profiles: those after 'ENSG' and 'SEX'.
TissueColumns == SubSeq(rnaseq_profiles.columns, 3, Len(rnaseq_profiles.columns))

\* C7: PivotToProfiles returns exactly one row per (gene, sex) pair of the
\* aggregate table and no other row, and the row's cell of tissue t is the
\* median of (gene, t, sex) when the table has that triple, else missing.
C7_PivotComplete ==
  /\ pc # "raised"
  /\ pc = "profiled" =>
       /\ \A p \in GeneSexPairs :
            Cardinality({n \in DOMAIN rnaseq_profiles.rows :
                           /\ rnaseq_profiles.rows[n].ENSG = p[1]
                           /\ rnaseq_profiles.rows[n].SEX = p[2]}) = 1
       /\ \A n \in DOMAIN rnaseq_profiles.rows :
            LET row == rnaseq_profiles.rows[n]
            IN /\ <<row.ENSG, row.SEX>> \in GeneSexPairs
               /\ Len(row.cells) = Len(TissueColumns)
               /\ \A c \in DOMAIN TissueColumns :
                    LET I == MedianRowsOf(row.ENSG, TissueColumns[c], row.SEX)
                    IN IF I = {} THEN row.cells[c] = <<>>
                       ELSE \A i \in I : row.cells[c] = <<rnaseq_median[i].TPM>>

\* C7's case: a profile row with a missing cell beside a cell holding a
\* median of 0, for a gene that has no row of the other sex.
C7_Witness ==
  /\ pc = "profiled"
  /\ \E n \in DOMAIN rnaseq_profiles.rows :
       LET row == rnaseq_profiles.rows[n]
       IN /\ \E c \in DOMAIN row.cells : row.cells[c] = <<>>
          /\ \E c \in DOMAIN row.cells : row.cells[c] = <<0>>
          /\ \A m \in DOMAIN rnaseq_profiles.rows :
               rnaseq_profiles.rows[m].ENSG = row.ENSG => m = n

\* The tissue labels observed in the aggregate table.
ObservedTissues == {rnaseq_median[i].SMTSD : i \in DOMAIN rnaseq_median}

\* C8: the profile columns are gene ID, sex, then each observed tissue once
\* and no other; they follow the supplied list when its set of labels is the
\* observed set, else the lexicographic order of the observed labels, and
\* the call completes.
C8_ColumnResolution ==
  /\ pc # "raised"
  /\ pc = "profiled" =>
       /\ Len(rnaseq_profiles.columns) >= 2
       /\ rnaseq_profiles.columns[1] = ColENSG
       /\ rnaseq_profiles.columns[2] = ColSEX
       /\ Range(TissueColumns) = ObservedTissues
       /\ Len(TissueColumns) = Cardinality(ObservedTissues)
       /\ IF tissues.series /\ Range(tissues.values) = ObservedTissues
          THEN TissueColumns = tissues.values
          ELSE \A c \in 1..(Len(TissueColumns) - 1) :
                 LexLess(TissueColumns[c], TissueColumns[c + 1])

\* The text of s before its first period; all of s when it has none.
RECURSIVE BeforeFirstPeriod(_)
BeforeFirstPeriod(s) ==
  IF s = <<>> \/ Head(s) = 46 THEN <<>>
  ELSE <<Head(s)>> \o BeforeFirstPeriod(Tail(s))

\* C10: ReadRnaseq leaves in the ENSG column the text before the first
\* period of every identifier (an identifier without a period unchanged),
\* and an unversioned identifier of the gene file is still there after the
\* inner join.
C10_VersionStripped ==
  /\ pc = "read" =>
       \A i \in DOMAIN Name : ENSG[i] = BeforeFirstPeriod(Name[i])
  /\ pc = "joined" =>
       \A i \in DOMAIN Name :
         (Name[i] \in genes) => \E j \in DOMAIN ENSG : ENSG[j] = Name[i]

====
